---- MODULE Spec2Model ----
(***************************************************************************)
(* Notes-and-bookmarks backend: the Express handlers of routes/notes.js    *)
(* (src/unnamed/part_000) and routes/bookmarks.js, the Mongoose schemas    *)
(* they persist through, and utils/fetchMetadata.js (src/unnamed/part_001).*)
(*                                                                         *)
(* A JavaScript string is a sequence of one-character strings, so that     *)
(* trim, split, regular-expression search and length limits are computed,  *)
(* not assumed.  A JavaScript value is a record [t, s, a]: its type tag,   *)
(* its characters (String(v) for a scalar) and its elements (an array).    *)
(***************************************************************************)
EXTENDS Integers, Sequences, FiniteSets, TLC

VARIABLES
    router,      \* the router the requests of this run go to
    notes,       \* the Note collection: a set of stored documents
    bookmarks,   \* the Bookmark collection: a set of stored documents
    nextId,      \* the next ObjectId the store hands out
    clock,       \* the millisecond clock behind createdAt and updatedAt
    req,         \* the request handled last
    res,         \* the response sent last
    fx,          \* fetchMetadata: the outcome of the outbound fetch
    fr,          \* fetchMetadata: what the call gave back to its caller
    tagIn,       \* tag processing: the raw req.body.tags
    tagOut,      \* tag processing: the array it produced
    tagAgain     \* tag processing: the array produced from tagOut

vars == <<router, notes, bookmarks, nextId, clock, req, res, fx, fr, tagIn, tagOut, tagAgain>>

----------------------------------------------------------------------------
(* Bounds of the model *)

MaxRecords == 2     \* documents ever created, over both collections
MaxTagElems == 2    \* length of a tags array drawn in SpecTags
MaxTagChars == 3    \* length of a tags string drawn in SpecTags
MaxClock == 2       \* distinct instants of the millisecond clock

(* Program constants *)

MaxTitleLen == 200         \* schema: title maxlength
MaxDescriptionLen == 500   \* schema: description maxlength
MalformedId == 0           \* stands for every :id that is no 24-hex ObjectId

Users == {"u1", "u2"}

----------------------------------------------------------------------------
(* JavaScript strings *)

WS == {" ", "\t", "\n"}

UpperToLower ==
    [c \in {"A", "B", "C", "H", "M", "T", "X"} |->
        CASE c = "A" -> "a" [] c = "B" -> "b" [] c = "C" -> "c" [] c = "H" -> "h"
          [] c = "M" -> "m" [] c = "T" -> "t" [] c = "X" -> "x"]

LowerChar(c) == IF c \in DOMAIN UpperToLower THEN UpperToLower[c] ELSE c

RECURSIVE TrimLeft(_)
TrimLeft(s) == IF s # <<>> /\ Head(s) \in WS THEN TrimLeft(Tail(s)) ELSE s

RECURSIVE TrimRight(_)
TrimRight(s) ==
    IF s # <<>> /\ s[Len(s)] \in WS THEN TrimRight(SubSeq(s, 1, Len(s) - 1)) ELSE s

\* String.prototype.trim
Trim(s) == TrimRight(TrimLeft(s))

\* String.prototype.split(/[seps]+/) when runs, split(sep) otherwise: the
\* pieces between separators, the empty leading and trailing pieces included
RECURSIVE SplitFrom(_, _, _, _, _, _)
SplitFrom(s, seps, runs, i, cur, acc) ==
    IF i > Len(s) THEN Append(acc, cur)
    ELSE IF s[i] \in seps
         THEN IF runs /\ i > 1 /\ s[i - 1] \in seps
              THEN SplitFrom(s, seps, runs, i + 1, cur, acc)
              ELSE SplitFrom(s, seps, runs, i + 1, <<>>, Append(acc, cur))
         ELSE SplitFrom(s, seps, runs, i + 1, Append(cur, s[i]), acc)

Split(s, seps, runs) == SplitFrom(s, seps, runs, 1, <<>>, <<>>)

Map(f(_), seq) == [i \in 1..Len(seq) |-> f(seq[i])]

NonEmpty(x) == Len(x) > 0

RECURSIVE Join(_, _)
Join(seqs, sep) ==
    IF seqs = <<>> THEN <<>>
    ELSE IF Len(seqs) = 1 THEN seqs[1]
    ELSE seqs[1] \o sep \o Join(Tail(seqs), sep)

----------------------------------------------------------------------------
(* JavaScript values *)

Undef == [t |-> "undefined", s |-> <<"u","n","d","e","f","i","n","e","d">>, a |-> <<>>]
Null == [t |-> "null", s |-> <<"n","u","l","l">>, a |-> <<>>]
Str(s) == [t |-> "string", s |-> s, a |-> <<>>]
Num(s) == [t |-> "number", s |-> s, a |-> <<>>]
Bool(b) == [t |-> "boolean",
            s |-> IF b THEN <<"t","r","u","e">> ELSE <<"f","a","l","s","e">>,
            a |-> <<>>]
Arr(a) == [t |-> "array", s |-> <<>>, a |-> a]

\* ToBoolean: what `if (v)`, `!v` and `v || w` test
Truthy(v) ==
    CASE v.t \in {"undefined", "null"} -> FALSE
      [] v.t = "string" -> v.s # <<>>
      [] v.t = "number" -> v.s # <<"0">>
      [] v.t = "boolean" -> v.s = <<"t","r","u","e">>
      [] OTHER -> TRUE

\* String(v)
StringOf(v) ==
    IF v.t = "array" THEN Join([i \in 1..Len(v.a) |->
                                  IF v.a[i].t \in {"undefined", "null"} THEN <<>> ELSE v.a[i].s],
                               <<",">>)
    ELSE v.s

----------------------------------------------------------------------------
(* Tag processing: the same statements in POST and PUT of both routers *)

\* tags.map(tag => String(tag).trim()).filter(tag => tag.length > 0)
CleanArrayFilterFirst(a) ==
    LET kept == SelectSeq([i \in 1..Len(a) |-> StringOf(a[i])], NonEmpty)
    IN  [i \in 1..Len(kept) |-> Trim(kept[i])]

CleanArray(a) == SelectSeq([i \in 1..Len(a) |-> Trim(StringOf(a[i]))], NonEmpty)

\* tags.split(/[,\s#]+/).map(tag => tag.trim()).filter(tag => tag.length > 0)
CleanString(s) == SelectSeq(Map(Trim, Split(s, WS \cup {",", "#"}, TRUE)), NonEmpty)

\* [...new Set(tagsArray)]: the first occurrence of each element, in order
RECURSIVE UniqueFrom(_, _)
UniqueFrom(seq, acc) ==
    IF seq = <<>> THEN acc
    ELSE UniqueFrom(Tail(seq),
                    IF \E i \in 1..Len(acc) : acc[i] = Head(seq) THEN acc
                    ELSE Append(acc, Head(seq)))

UniqueNone(seq) == seq

Unique(seq) == UniqueFrom(seq, <<>>)

\* the Array.isArray / typeof === 'string' branches
TagsArray(tags) ==
    IF tags.t = "array" THEN CleanArray(tags.a)
    ELSE IF tags.t = "string" THEN CleanString(tags.s)
    ELSE <<>>

\* POST: let tagsArray = []; if (tags) {...}; tagsArray = [...new Set(tagsArray)]
ProcessTagsCreate(tags) == Unique(IF Truthy(tags) THEN TagsArray(tags) ELSE <<>>)

\* PUT, under tags !== undefined: updateData.tags = [...new Set(tagsArray)]
ProcessTagsUpdate(tags) == Unique(TagsArray(tags))

----------------------------------------------------------------------------
(* Validation *)

RequiredMissingNoBlank(v) == ~Truthy(v) \/ v.t # "string"

\* !v || typeof v !== 'string' || !v.trim()
RequiredMissing(v) == ~Truthy(v) \/ v.t # "string" \/ ~Truthy(Str(Trim(v.s)))

HasPrefix(s, p) == Len(s) >= Len(p) /\ SubSeq(s, 1, Len(p)) = p

\* /^https?:\/\/.+/.test(s)
UrlPattern(s) ==
    \E p \in {<<"h","t","t","p",":","/","/">>, <<"h","t","t","p","s",":","/","/">>} :
        HasPrefix(s, p) /\ Len(s) > Len(p) /\ s[Len(p) + 1] # "\n"

\* Mongoose's Boolean cast (isFavorite: { type: Boolean })
ConvertToTrue == {Bool(TRUE), Str(<<"t","r","u","e">>), Num(<<"1">>), Str(<<"1">>), Str(<<"y","e","s">>)}
ConvertToFalse == {Bool(FALSE), Str(<<"f","a","l","s","e">>), Num(<<"0">>), Str(<<"0">>), Str(<<"n","o">>)}
CanCastBoolean(v) == v \in ConvertToTrue \cup ConvertToFalse
CastBoolean(v) == v \in ConvertToTrue

----------------------------------------------------------------------------
(* Documents, requests, responses *)

\* A stored document.  A Note leaves url and description empty, a Bookmark
\* leaves content empty.  { timestamps: true } gives it createdAt and
\* updatedAt, both the time of the save.
Doc(id, u, title, content, url, description, tags, fav, at) ==
    [id |-> id, user |-> u, title |-> title, content |-> content, url |-> url,
     description |-> description, tags |-> tags, isFavorite |-> fav, createdAt |-> at,
     updatedAt |-> at]

\* res.status(status).json(...): the documents sent, or the error messages;
\* storage tells whether the handler reached a call of the model layer
Reply(status, error, docs, storage) ==
    [status |-> status, error |-> error, docs |-> docs, storage |-> storage]

NoBody == [title |-> Undef, content |-> Undef, url |-> Undef, description |-> Undef,
           tags |-> Undef, isFavorite |-> Undef]
NoQuery == [q |-> Undef, tags |-> Undef, favorite |-> Undef]

\* fetched: what fetchMetadata returned to the handler, undefined if not called
Request(op, kind, u, id, body, query, fetched) ==
    [op |-> op, kind |-> kind, user |-> u, id |-> id, body |-> body, query |-> query,
     fetched |-> fetched]

\* the messages of the two routers
NoteMsg == [notFound |-> "Note not found", invalid |-> "Invalid note ID",
            deleted |-> "Note deleted successfully"]
BookmarkMsg == [notFound |-> "Bookmark not found", invalid |-> "Invalid bookmark ID",
                deleted |-> "Bookmark deleted successfully"]

Unset(v) == [set |-> FALSE, v |-> v]
Set(v) == [set |-> TRUE, v |-> v]

----------------------------------------------------------------------------
(* The model layer: Mongoose schemas and queries *)

Opt(cond, msg) == IF cond THEN <<msg>> ELSE <<>>

\* noteSchema's validators; content is required too.  fav is the raw value
NoteSchemaErrors(title, content, fav) ==
    Opt(title.set /\ title.v = <<>>, "Title is required")
    \o Opt(title.set /\ Len(title.v) > MaxTitleLen, "Title cannot exceed 200 characters")
    \o Opt(content.set /\ content.v = <<>>, "Content is required")
    \o Opt(fav.set /\ ~CanCastBoolean(fav.v), "Cast to Boolean failed")

\* bookmarkSchema's validators
BookmarkSchemaErrors(url, title, description, fav) ==
    Opt(url.set /\ url.v = <<>>, "URL is required")
    \o Opt(url.set /\ url.v # <<>> /\ ~UrlPattern(url.v),
           "Please provide a valid URL (must start with http:// or https://)")
    \o Opt(title.set /\ Len(title.v) > MaxTitleLen, "Title cannot exceed 200 characters")
    \o Opt(description.set /\ Len(description.v) > MaxDescriptionLen,
           "Description cannot exceed 500 characters")
    \o Opt(fav.set /\ ~CanCastBoolean(fav.v), "Cast to Boolean failed")

\* the filter { _id: req.params.id, user: req.user._id }
FindOneAnyUser(coll, id, u) == {d \in coll : d.id = id}

FindOne(coll, id, u) == {d \in coll : d.id = id /\ d.user = u}

ApplyUpdateReplace(d, upd, now) ==
    [d EXCEPT !.title = IF upd.title.set THEN upd.title.v ELSE <<>>,
              !.content = IF upd.content.set THEN upd.content.v ELSE <<>>,
              !.url = IF upd.url.set THEN upd.url.v ELSE <<>>,
              !.description = IF upd.description.set THEN upd.description.v ELSE <<>>,
              !.tags = IF upd.tags.set THEN upd.tags.v ELSE <<>>,
              !.isFavorite = IF upd.isFavorite.set THEN CastBoolean(upd.isFavorite.v) ELSE FALSE,
              !.updatedAt = now]

\* $set of the fields updateData holds, and of updatedAt, which
\* { timestamps: true } adds to every update
ApplyUpdate(d, upd, now) ==
    [d EXCEPT !.title = IF upd.title.set THEN upd.title.v ELSE @,
              !.content = IF upd.content.set THEN upd.content.v ELSE @,
              !.url = IF upd.url.set THEN upd.url.v ELSE @,
              !.description = IF upd.description.set THEN upd.description.v ELSE @,
              !.tags = IF upd.tags.set THEN upd.tags.v ELSE @,
              !.isFavorite = IF upd.isFavorite.set THEN CastBoolean(upd.isFavorite.v) ELSE @,
              !.updatedAt = now]

\* Model.findOneAndUpdate(filter, updateData, { new: true, runValidators: true })
\* and the handler's answers to what it gives or throws.  The filter is cast
\* first, then the update, then the update validators run, then the store
\* is asked.  coll is the collection, errs the validators' messages, now the
\* time of the update.
FindOneAndUpdate(coll, msg, id, u, upd, errs, now) ==
    IF id = MalformedId \/ (upd.isFavorite.set /\ ~CanCastBoolean(upd.isFavorite.v))
    THEN [res |-> Reply(400, <<msg.invalid>>, <<>>, "threw"), coll |-> coll]
    ELSE IF errs # <<>>
    THEN [res |-> Reply(400, errs, <<>>, "threw"), coll |-> coll]
    ELSE LET hit == FindOne(coll, id, u)
         IN  IF hit = {}
             THEN [res |-> Reply(404, <<msg.notFound>>, <<>>, "called"), coll |-> coll]
             ELSE LET d == CHOOSE x \in hit : TRUE
                      n == ApplyUpdate(d, upd, now)
                  IN  [res |-> Reply(200, <<>>, <<n>>, "called"),
                       coll |-> (coll \ {d}) \cup {n}]

\* Model.findOne(filter) and the handler's answers
FindOneReply(coll, msg, id, u) ==
    IF id = MalformedId
    THEN [res |-> Reply(400, <<msg.invalid>>, <<>>, "threw"), coll |-> coll]
    ELSE LET hit == FindOne(coll, id, u)
         IN  IF hit = {}
             THEN [res |-> Reply(404, <<msg.notFound>>, <<>>, "called"), coll |-> coll]
             ELSE [res |-> Reply(200, <<>>, <<CHOOSE x \in hit : TRUE>>, "called"),
                   coll |-> coll]

FindOneAndDeleteForbidden(coll, msg, id, u) ==
    IF id = MalformedId
    THEN [res |-> Reply(400, <<msg.invalid>>, <<>>, "threw"), coll |-> coll]
    ELSE IF FindOneAnyUser(coll, id, u) = {}
    THEN [res |-> Reply(404, <<msg.notFound>>, <<>>, "called"), coll |-> coll]
    ELSE IF FindOne(coll, id, u) = {}
    THEN [res |-> Reply(403, <<"Forbidden">>, <<>>, "called"), coll |-> coll]
    ELSE [res |-> Reply(200, <<msg.deleted>>, <<>>, "called"),
          coll |-> coll \ FindOne(coll, id, u)]

\* Model.findOneAndDelete(filter) and the handler's answers
FindOneAndDelete(coll, msg, id, u) ==
    IF id = MalformedId
    THEN [res |-> Reply(400, <<msg.invalid>>, <<>>, "threw"), coll |-> coll]
    ELSE LET hit == FindOne(coll, id, u)
         IN  IF hit = {}
             THEN [res |-> Reply(404, <<msg.notFound>>, <<>>, "called"), coll |-> coll]
             ELSE [res |-> Reply(200, <<msg.deleted>>, <<>>, "called"),
                   coll |-> coll \ hit]

----------------------------------------------------------------------------
(* The list query *)

\* MongoDB compiles $regex with PCRE: an unclosed group does not compile.
\* Patterns here are over letters, digits, blanks, "." and "(".
RegexValid(p) == \A i \in 1..Len(p) : p[i] # "("

CharMatches(pc, c) == IF pc = "." THEN c # "\n" ELSE LowerChar(pc) = LowerChar(c)

\* { $regex: p, $options: 'i' } against the string s: an unanchored search
RegexSearch(p, s) ==
    \E k \in 0..(Len(s) - Len(p)) : \A i \in 1..Len(p) : CharMatches(p[i], s[k + i])

\* tags.split(',').map(tag => tag.trim()).filter(tag => tag.length > 0)
TagFilter(s) == SelectSeq(Map(Trim, Split(s, {","}, FALSE)), NonEmpty)

\* .sort({ createdAt: -1 }): every order of S that is descending in createdAt
\* (the store does not say how it orders equal keys)
SortedDesc(S) ==
    {f \in [1..Cardinality(S) -> S] :
        /\ \A i, j \in 1..Cardinality(S) : i # j => f[i] # f[j]
        /\ \A i, j \in 1..Cardinality(S) : i < j => f[i].createdAt >= f[j].createdAt}

\* router.get('/'): the replies the handler can send.  fields are the
\* searched fields of the $or, what names the router in the 500 message
ListReplies(coll, fields, what, u, query) ==
    IF Truthy(query.tags) /\ query.tags.t # "string"
    THEN {Reply(500, <<"Server error while fetching " \o what>>, <<>>, "none")}
    ELSE IF Truthy(query.q) /\ ~RegexValid(query.q.s)
    THEN {Reply(500, <<"Server error while fetching " \o what>>, <<>>, "threw")}
    ELSE LET tagArray == IF Truthy(query.tags) THEN TagFilter(query.tags.s) ELSE <<>>
             found == {d \in coll :
                         /\ d.user = u
                         /\ Truthy(query.q) => \E f \in fields : RegexSearch(query.q.s, d[f])
                         /\ Len(tagArray) > 0 =>
                                \E i \in 1..Len(d.tags), j \in 1..Len(tagArray) :
                                    d.tags[i] = tagArray[j]
                         /\ query.favorite = Str(<<"t","r","u","e">>) => d.isFavorite}
         IN  {Reply(200, <<>>, docs, "called") : docs \in SortedDesc(found)}

----------------------------------------------------------------------------
(* utils/fetchMetadata.js *)

\* s.replace(/\s+/g, ' ')
RECURSIVE CollapseFrom(_, _, _)
CollapseFrom(s, i, acc) ==
    IF i > Len(s) THEN acc
    ELSE IF s[i] \in WS
         THEN CollapseFrom(s, i + 1, IF i > 1 /\ s[i - 1] \in WS THEN acc ELSE Append(acc, " "))
         ELSE CollapseFrom(s, i + 1, Append(acc, s[i]))

Collapse(s) == CollapseFrom(s, 1, <<>>)

\* The outcome of axios.get and cheerio.load: ok is FALSE when either throws
\* (network error, timeout, error status, unparsable body); og and tw are the
\* content attributes (undefined when the element is missing), title and h1
\* the text of the elements ("" when missing).
Page(ok, og, tw, title, h1) == [ok |-> ok, og |-> og, tw |-> tw, title |-> title, h1 |-> h1]

\* a || b
Or(a, b) == IF Truthy(a) THEN a ELSE b

\* fetchMetadata(url): the value the promise resolves to
FetchMetadata(page) ==
    IF ~page.ok THEN Null
    ELSE LET raw == Or(page.og, Or(page.tw, Or(page.title, page.h1)))
             title == IF Truthy(raw) THEN Str(Collapse(Trim(raw.s))) ELSE raw
         IN  Or(title, Null)

----------------------------------------------------------------------------
(* routes/notes.js *)

\* router.post('/')
NotePost(u, b, now) ==
    IF RequiredMissing(b.title)
    THEN [res |-> Reply(400, <<"Title is required">>, <<>>, "none"), coll |-> notes]
    ELSE IF RequiredMissing(b.content)
    THEN [res |-> Reply(400, <<"Content is required">>, <<>>, "none"), coll |-> notes]
    ELSE LET tagsArray == ProcessTagsCreate(b.tags)
             fav == Or(b.isFavorite, Bool(FALSE))
             errs == NoteSchemaErrors(Set(Trim(b.title.s)), Set(Trim(b.content.s)), Set(fav))
             note == Doc(nextId, u, Trim(b.title.s), Trim(b.content.s), <<>>, <<>>,
                         tagsArray, CastBoolean(fav), now)
         IN  IF errs # <<>>
             THEN [res |-> Reply(400, errs, <<>>, "threw"), coll |-> notes]
             ELSE [res |-> Reply(201, <<>>, <<note>>, "called"), coll |-> notes \cup {note}]

\* router.get('/')
NoteList(u, query) == ListReplies(notes, {"title", "content"}, "notes", u, query)

\* router.get('/:id')
NoteGet(u, id) == FindOneReply(notes, NoteMsg, id, u)

\* router.put('/:id')
NotePut(u, id, b, now) ==
    IF b.title # Undef /\ RequiredMissing(b.title)
    THEN [res |-> Reply(400, <<"Title is required">>, <<>>, "none"), coll |-> notes]
    ELSE IF b.content # Undef /\ RequiredMissing(b.content)
    THEN [res |-> Reply(400, <<"Content is required">>, <<>>, "none"), coll |-> notes]
    ELSE LET updateData ==
                 [title |-> IF b.title # Undef THEN Set(Trim(b.title.s)) ELSE Unset(<<>>),
                  content |-> IF b.content # Undef THEN Set(Trim(b.content.s)) ELSE Unset(<<>>),
                  url |-> Unset(<<>>),
                  description |-> Unset(<<>>),
                  tags |-> IF b.tags # Undef THEN Set(ProcessTagsUpdate(b.tags)) ELSE Unset(<<>>),
                  isFavorite |-> IF b.isFavorite # Undef THEN Set(b.isFavorite) ELSE Unset(Undef)]
             errs == NoteSchemaErrors(updateData.title, updateData.content, Unset(Undef))
         IN  FindOneAndUpdate(notes, NoteMsg, id, u, updateData, errs, now)

\* router.delete('/:id')
NoteDelete(u, id) == FindOneAndDelete(notes, NoteMsg, id, u)

----------------------------------------------------------------------------
(* routes/bookmarks.js *)

\* v.trim() throws a TypeError when v is truthy and no string
TrimThrows(v) == Truthy(v) /\ v.t # "string"

\* router.post('/'); m is what fetchMetadata(url) resolves to if called
BookmarkPost(u, b, m, now) ==
    IF RequiredMissing(b.url)
    THEN [res |-> Reply(400, <<"URL is required">>, <<>>, "none"), coll |-> bookmarks]
    ELSE IF ~UrlPattern(Trim(b.url.s))
    THEN [res |-> Reply(400, <<"Please provide a valid URL (must start with http:// or https://)">>,
                        <<>>, "none"),
          coll |-> bookmarks]
    ELSE IF TrimThrows(b.title) \/ TrimThrows(b.description)
    THEN [res |-> Reply(500, <<"Server error while creating bookmark">>, <<>>, "none"),
          coll |-> bookmarks]
    ELSE LET tagsArray == ProcessTagsCreate(b.tags)
             bookmarkTitle ==
                 IF ~Truthy(b.title) \/ Trim(b.title.s) = <<>> THEN Or(m, b.url) ELSE b.title
             description == IF Truthy(b.description) THEN Trim(b.description.s) ELSE <<>>
             fav == Or(b.isFavorite, Bool(FALSE))
             errs == BookmarkSchemaErrors(Set(Trim(b.url.s)), Set(Trim(bookmarkTitle.s)),
                                          Set(description), Set(fav))
             bookmark == Doc(nextId, u, Trim(bookmarkTitle.s), <<>>, Trim(b.url.s), description,
                             tagsArray, CastBoolean(fav), now)
         IN  IF errs # <<>>
             THEN [res |-> Reply(400, errs, <<>>, "threw"), coll |-> bookmarks]
             ELSE [res |-> Reply(201, <<>>, <<bookmark>>, "called"),
                   coll |-> bookmarks \cup {bookmark}]

\* whether router.post('/') reaches its call of fetchMetadata
BookmarkPostFetches(b) ==
    /\ ~RequiredMissing(b.url)
    /\ UrlPattern(Trim(b.url.s))
    /\ ~Truthy(b.title) \/ (b.title.t = "string" /\ Trim(b.title.s) = <<>>)

\* router.get('/')
BookmarkList(u, query) ==
    ListReplies(bookmarks, {"title", "description", "url"}, "bookmarks", u, query)

\* router.get('/:id')
BookmarkGet(u, id) == FindOneReply(bookmarks, BookmarkMsg, id, u)

\* router.put('/:id')
BookmarkPut(u, id, b, now) ==
    IF b.url # Undef /\ RequiredMissing(b.url)
    THEN [res |-> Reply(400, <<"URL is required">>, <<>>, "none"), coll |-> bookmarks]
    ELSE IF b.url # Undef /\ ~UrlPattern(Trim(b.url.s))
    THEN [res |-> Reply(400, <<"Please provide a valid URL (must start with http:// or https://)">>,
                        <<>>, "none"),
          coll |-> bookmarks]
    ELSE IF TrimThrows(b.title) \/ TrimThrows(b.description)
    THEN [res |-> Reply(500, <<"Server error while updating bookmark">>, <<>>, "none"),
          coll |-> bookmarks]
    ELSE LET text(v) == IF Truthy(v) THEN Trim(v.s) ELSE <<>>
             updateData ==
                 [title |-> IF b.title # Undef THEN Set(text(b.title)) ELSE Unset(<<>>),
                  content |-> Unset(<<>>),
                  url |-> IF b.url # Undef THEN Set(Trim(b.url.s)) ELSE Unset(<<>>),
                  description |-> IF b.description # Undef THEN Set(text(b.description))
                                  ELSE Unset(<<>>),
                  tags |-> IF b.tags # Undef THEN Set(ProcessTagsUpdate(b.tags)) ELSE Unset(<<>>),
                  isFavorite |-> IF b.isFavorite # Undef THEN Set(b.isFavorite) ELSE Unset(Undef)]
             errs == BookmarkSchemaErrors(updateData.url, updateData.title,
                                          updateData.description, Unset(Undef))
         IN  FindOneAndUpdate(bookmarks, BookmarkMsg, id, u, updateData, errs, now)

\* router.delete('/:id')
BookmarkDelete(u, id) == FindOneAndDelete(bookmarks, BookmarkMsg, id, u)

----------------------------------------------------------------------------
(* The inputs drawn *)

Chars(n, c) == [i \in 1..n |-> c]

sAb == <<"A", "b">>
sXy == <<"x", "y">>
sTb == <<"T", " ", "b">>
sC == <<"c">>
sTrue == <<"t", "r", "u", "e">>
Http == <<"h", "t", "t", "p", ":", "/", "/">>
urlA == Http \o <<"a">>
urlLong == Http \o Chars(MaxTitleLen - Len(Http) + 1, "x")
LongTitle == Chars(MaxTitleLen + 1, "x")

With(b, field, v) == [b EXCEPT ![field] = v]

\* req.body.tags
TagInputs ==
    {Str(<<"a", ",", " ", "b", " ", "#", "a">>),
     Arr(<<Str(<<"a">>), Str(<<" ", "a", " ">>), Str(<<>>), Str(<<"b">>)>>),
     Arr(<<Str(<<" ">>), Str(<<"\t", "\n">>)>>),
     Str(<<" ", ",">>), Num(<<"5">>), Null}

NoteBase == [NoBody EXCEPT !.title = Str(sAb), !.content = Str(sC)]

NotePostBodies ==
    {NoteBase, NoBody}
    \cup {With(NoteBase, "title", v) :
            v \in {Null, Str(<<>>), Str(<<" ">>), Num(<<"5">>), Str(LongTitle)}}
    \cup {With(NoteBase, "content", v) : v \in {Undef, Str(<<" ", "\t">>), Arr(<<>>)}}
    \cup {With(NoteBase, "tags", v) : v \in TagInputs}
    \cup {With(NoteBase, "isFavorite", v) : v \in {Bool(TRUE), Str(<<"x">>)}}

NotePutBodies ==
    {NoBody, [NoBody EXCEPT !.title = Str(<<" ">>), !.isFavorite = Bool(TRUE)],
     [NoBody EXCEPT !.title = Str(sXy), !.content = Str(<<" ">>)]}
    \cup {With(NoBody, "title", v) : v \in {Str(<<" ", "x", "y", " ">>), Null, Str(LongTitle)}}
    \cup {With(NoBody, "content", v) : v \in {Str(<<" ">>), Str(sC)}}
    \cup {With(NoBody, "tags", v) : v \in TagInputs}
    \cup {With(NoBody, "isFavorite", v) : v \in {Bool(TRUE), Str(<<"x">>)}}

BookmarkBase == [NoBody EXCEPT !.url = Str(urlA)]

BookmarkPostBodies ==
    {BookmarkBase, NoBody}
    \cup {With(BookmarkBase, "url", v) :
            v \in {Num(<<"5">>), Str(<<" ">>), Str(<<"f", "t", "p", ":", "/", "/", "x">>),
                   Str(Http), Str(<<" ">> \o urlA \o <<" ">>)}}
    \cup {With(BookmarkBase, "title", v) : v \in {Str(<<" ">>), Str(sTb), Num(<<"5">>)}}
    \cup {With(BookmarkBase, "description", v) :
            v \in {Num(<<"5">>), Str(Chars(MaxDescriptionLen + 1, "x"))}}
    \cup {With(BookmarkBase, "tags", v) : v \in TagInputs}
    \cup {With(BookmarkBase, "isFavorite", v) : v \in {Bool(TRUE), Str(<<"x">>)}}

BookmarkPutBodies ==
    {NoBody, [NoBody EXCEPT !.url = Str(<<" ">>), !.isFavorite = Bool(TRUE)]}
    \cup {With(NoBody, "url", v) :
            v \in {Null, Str(<<"f", "t", "p", ":", "/", "/", "x">>), Str(urlA)}}
    \cup {With(NoBody, "title", v) :
            v \in {Str(<<" ">> \o sTb), Null, Num(<<"5">>), Str(LongTitle)}}
    \cup {With(NoBody, "description", v) : v \in {Str(<<>>), Num(<<"5">>)}}
    \cup {With(NoBody, "tags", v) : v \in TagInputs}
    \cup {With(NoBody, "isFavorite", v) : v \in {Bool(TRUE), Str(<<"x">>)}}

\* req.query: a parameter given twice arrives as an array
Queries ==
    [q : {Undef, Str(<<"B">>), Str(<<".">>), Str(<<"(">>)},
     tags : {Undef, Str(<<"a">>), Str(<<" ", ",", "7", ",", " ", "b">>), Str(<<",">>),
             Arr(<<Str(<<"a">>), Str(<<"b">>)>>)},
     favorite : {Undef}]
    \cup [q : {Undef, Str(<<"B">>)},
          tags : {Undef, Str(<<"a">>)},
          favorite : {Str(sTrue), Str(<<"T", "r", "u", "e">>)}]

\* what the fetched page holds when POST /bookmarks calls fetchMetadata
NoPage == Page(FALSE, Undef, Undef, Str(<<>>), Str(<<>>))
PostPages == {NoPage, Page(TRUE, Undef, Undef, Str(<<" ", "T", " ", "\n", "b">>), Str(<<>>))}

\* POST /bookmarks: the body and the page behind its url.  The page of the
\* url of more than MaxTitleLen characters does not load.
BookmarkPosts ==
    (BookmarkPostBodies \X PostPages) \cup {<<With(BookmarkBase, "url", Str(urlLong)), NoPage>>}

\* req.params.id
NoId == MalformedId - 1
IdParams == MalformedId..(MaxRecords + 1)

----------------------------------------------------------------------------
(* The request/response machine *)

Idle == Request("none", "none", "u1", NoId, NoBody, NoQuery, Undef)

InitStore ==
    /\ notes = {}
    /\ bookmarks = {}
    /\ nextId = 1
    /\ clock = 1
    /\ req = Idle
    /\ res = Reply(0, <<>>, <<>>, "none")

InitFetch ==
    /\ fx = Page(FALSE, Undef, Undef, Str(<<>>), Str(<<>>))
    /\ fr = [called |-> FALSE, threw |-> FALSE, value |-> Undef]

InitTags ==
    /\ tagIn = Undef
    /\ tagOut = [done |-> FALSE, by |-> "none", v |-> <<>>]
    /\ tagAgain = [done |-> FALSE, by |-> "none", v |-> <<>>]

\* The two routers share no state (each has its own collection, and an id of
\* one collection is an id of no document of the other), so a run sends its
\* requests to one of them.
Init == router \in {"notes", "bookmarks"} /\ InitStore /\ InitFetch /\ InitTags

\* Date.now() at a save or an update.  Only the order and the equality of
\* the timestamps are observable, so the clock counts distinct instants: it
\* moves on when a document stamped at the current instant is there to tell
\* the difference, or stays when the two writes fall into the same
\* millisecond.
Nows ==
    IF /\ clock < MaxClock
       /\ \E d \in notes \cup bookmarks : d.createdAt = clock \/ d.updatedAt = clock
    THEN {clock, clock + 1}
    ELSE {clock}

\* a handler that creates: r is its outcome, now the time of the save
Created(r, now) ==
    /\ req = Idle
    /\ r.res.status = 201 => nextId <= MaxRecords
    /\ nextId' = IF r.res.status = 201 THEN nextId + 1 ELSE nextId
    /\ clock' = IF r.res.status = 201 THEN now ELSE clock
    /\ res' = r.res

PostNote ==
    /\ router = "notes"
    /\ \E u \in Users, b \in NotePostBodies, now \in Nows :
        LET r == NotePost(u, b, now)
        IN  /\ Created(r, now)
            /\ notes' = r.coll
            /\ req' = Request("create", "note", u, NoId, b, NoQuery, Undef)
            /\ UNCHANGED <<router, bookmarks, fx, fr, tagIn, tagOut, tagAgain>>

ListNotes ==
    /\ router = "notes"
    /\ req = Idle
    /\ \E u \in Users, query \in Queries :
        \E r \in NoteList(u, query) :
            /\ res' = r
            /\ req' = Request("list", "note", u, NoId, NoBody, query, Undef)
            /\ UNCHANGED <<router, notes, bookmarks, nextId, clock, fx, fr, tagIn, tagOut, tagAgain>>

GetNote ==
    /\ router = "notes"
    /\ req = Idle
    /\ \E u \in Users, id \in IdParams :
        LET r == NoteGet(u, id)
        IN  /\ res' = r.res
            /\ notes' = r.coll
            /\ req' = Request("get", "note", u, id, NoBody, NoQuery, Undef)
            /\ UNCHANGED <<router, bookmarks, nextId, clock, fx, fr, tagIn, tagOut, tagAgain>>

PutNote ==
    /\ router = "notes"
    /\ req = Idle
    /\ \E u \in Users, id \in IdParams, b \in NotePutBodies, now \in Nows :
        LET r == NotePut(u, id, b, now)
        IN  /\ res' = r.res
            /\ notes' = r.coll
            /\ clock' = IF r.res.status = 200 THEN now ELSE clock
            /\ req' = Request("update", "note", u, id, b, NoQuery, Undef)
            /\ UNCHANGED <<router, bookmarks, nextId, fx, fr, tagIn, tagOut, tagAgain>>

DeleteNote ==
    /\ router = "notes"
    /\ req = Idle
    /\ \E u \in Users, id \in IdParams :
        LET r == NoteDelete(u, id)
        IN  /\ res' = r.res
            /\ notes' = r.coll
            /\ req' = Request("delete", "note", u, id, NoBody, NoQuery, Undef)
            /\ UNCHANGED <<router, bookmarks, nextId, clock, fx, fr, tagIn, tagOut, tagAgain>>

PostBookmark ==
    /\ router = "bookmarks"
    /\ \E u \in Users, bp \in BookmarkPosts, now \in Nows :
        LET b == bp[1]
            m == FetchMetadata(bp[2])
            r == BookmarkPost(u, b, m, now)
        IN  /\ Created(r, now)
            /\ bookmarks' = r.coll
            /\ req' = Request("create", "bookmark", u, NoId, b, NoQuery,
                               IF BookmarkPostFetches(b) THEN m ELSE Undef)
            /\ UNCHANGED <<router, notes, fx, fr, tagIn, tagOut, tagAgain>>

ListBookmarks ==
    /\ router = "bookmarks"
    /\ req = Idle
    /\ \E u \in Users, query \in Queries :
        \E r \in BookmarkList(u, query) :
            /\ res' = r
            /\ req' = Request("list", "bookmark", u, NoId, NoBody, query, Undef)
            /\ UNCHANGED <<router, notes, bookmarks, nextId, clock, fx, fr, tagIn, tagOut, tagAgain>>

GetBookmark ==
    /\ router = "bookmarks"
    /\ req = Idle
    /\ \E u \in Users, id \in IdParams :
        LET r == BookmarkGet(u, id)
        IN  /\ res' = r.res
            /\ bookmarks' = r.coll
            /\ req' = Request("get", "bookmark", u, id, NoBody, NoQuery, Undef)
            /\ UNCHANGED <<router, notes, nextId, clock, fx, fr, tagIn, tagOut, tagAgain>>

PutBookmark ==
    /\ router = "bookmarks"
    /\ req = Idle
    /\ \E u \in Users, id \in IdParams, b \in BookmarkPutBodies, now \in Nows :
        LET r == BookmarkPut(u, id, b, now)
        IN  /\ res' = r.res
            /\ bookmarks' = r.coll
            /\ clock' = IF r.res.status = 200 THEN now ELSE clock
            /\ req' = Request("update", "bookmark", u, id, b, NoQuery, Undef)
            /\ UNCHANGED <<router, notes, nextId, fx, fr, tagIn, tagOut, tagAgain>>

DeleteBookmark ==
    /\ router = "bookmarks"
    /\ req = Idle
    /\ \E u \in Users, id \in IdParams :
        LET r == BookmarkDelete(u, id)
        IN  /\ res' = r.res
            /\ bookmarks' = r.coll
            /\ req' = Request("delete", "bookmark", u, id, NoBody, NoQuery, Undef)
            /\ UNCHANGED <<router, notes, nextId, clock, fx, fr, tagIn, tagOut, tagAgain>>

\* The response is sent: Express drops req and res, and the server waits
\* for the next request.
EndRequest ==
    /\ req # Idle
    /\ req' = Idle
    /\ res' = Reply(0, <<>>, <<>>, "none")
    /\ UNCHANGED <<router, notes, bookmarks, nextId, clock, fx, fr, tagIn, tagOut, tagAgain>>

Next ==
    \/ EndRequest
    \/ PostNote \/ ListNotes \/ GetNote \/ PutNote \/ DeleteNote
    \/ PostBookmark \/ ListBookmarks \/ GetBookmark \/ PutBookmark \/ DeleteBookmark

Spec == Init /\ [][Next]_vars

----------------------------------------------------------------------------
(* Tag processing on its own: every tags value up to the bounds, processed *)
(* as POST or as PUT processes it, and its result processed once more      *)

TagElems ==
    {Str(<<"a">>), Str(<<" ", "a">>), Str(<<"b", "\t">>), Str(<<>>), Str(<<" ">>),
     Str(<<"a", " ", "b">>), Str(<<"a", ",", "b">>), Num(<<"7">>), Str(<<"7">>), Null}

TagChars == {"a", "b", ",", " ", "#"}

SeqsUpTo(S, n) == UNION {[1..k -> S] : k \in 0..n}

TagProbes ==
    {Undef, Null, Num(<<"5">>), Bool(TRUE)}
    \cup {Arr(a) : a \in SeqsUpTo(TagElems, MaxTagElems)}
    \cup {Str(c) : c \in SeqsUpTo(TagChars, MaxTagChars)}

\* the array of strings a handler produced, given back as req.body.tags
AsTags(list) == Arr([i \in 1..Len(list) |-> Str(list[i])])

InitTagProbe ==
    /\ router = "none"
    /\ InitStore
    /\ InitFetch
    /\ tagIn \in TagProbes
    /\ tagOut = [done |-> FALSE, by |-> "none", v |-> <<>>]
    /\ tagAgain = [done |-> FALSE, by |-> "none", v |-> <<>>]

TagsInPost ==
    /\ ~tagOut.done
    /\ tagOut' = [done |-> TRUE, by |-> "post", v |-> ProcessTagsCreate(tagIn)]
    /\ UNCHANGED <<router, notes, bookmarks, nextId, clock, req, res, fx, fr, tagIn, tagAgain>>

TagsInPut ==
    /\ ~tagOut.done
    /\ tagIn # Undef
    /\ tagOut' = [done |-> TRUE, by |-> "put", v |-> ProcessTagsUpdate(tagIn)]
    /\ UNCHANGED <<router, notes, bookmarks, nextId, clock, req, res, fx, fr, tagIn, tagAgain>>

TagsAgainInPost ==
    /\ tagOut.done
    /\ ~tagAgain.done
    /\ tagAgain' = [done |-> TRUE, by |-> "post", v |-> ProcessTagsCreate(AsTags(tagOut.v))]
    /\ UNCHANGED <<router, notes, bookmarks, nextId, clock, req, res, fx, fr, tagIn, tagOut>>

TagsAgainInPut ==
    /\ tagOut.done
    /\ ~tagAgain.done
    /\ tagAgain' = [done |-> TRUE, by |-> "put", v |-> ProcessTagsUpdate(AsTags(tagOut.v))]
    /\ UNCHANGED <<router, notes, bookmarks, nextId, clock, req, res, fx, fr, tagIn, tagOut>>

NextTags == TagsInPost \/ TagsInPut \/ TagsAgainInPost \/ TagsAgainInPut

SpecTags == InitTagProbe /\ [][NextTags]_vars

----------------------------------------------------------------------------
(* fetchMetadata on its own: every outcome of the fetch over the candidates *)

OgTitles == {Undef, Str(<<>>), Str(<<" ">>), Str(<<" ", "O", "\n", " ", "g">>)}
TwitterTitles == {Undef, Str(<<"\t">>), Str(<<"T", "w">>)}
TitleTexts == {Str(<<>>), Str(<<" ", " ">>), Str(<<"T", "i", " ">>)}
H1Texts == {Str(<<>>), Str(<<"\n">>), Str(<<"H", " ", " ", "1">>)}

Pages ==
    {NoPage} \cup {Page(TRUE, og, tw, ti, h1) :
                     og \in OgTitles, tw \in TwitterTitles, ti \in TitleTexts, h1 \in H1Texts}

InitFetchProbe ==
    /\ router = "none"
    /\ InitStore
    /\ InitTags
    /\ fx \in Pages
    /\ fr = [called |-> FALSE, threw |-> FALSE, value |-> Undef]

\* await fetchMetadata(url): the try block, or the catch that returns null
Fetch ==
    /\ ~fr.called
    /\ fr' = [called |-> TRUE, threw |-> FALSE, value |-> FetchMetadata(fx)]
    /\ UNCHANGED <<router, notes, bookmarks, nextId, clock, req, res, fx, tagIn, tagOut, tagAgain>>

NextFetch == Fetch

SpecFetch == InitFetchProbe /\ [][NextFetch]_vars

----------------------------------------------------------------------------
(* What the properties speak of *)

CollOf(kind) == IF kind = "note" THEN notes ELSE bookmarks

MsgOf(kind) == IF kind = "note" THEN NoteMsg ELSE BookmarkMsg

\* the searched fields of a list request
FieldsOf(kind) == IF kind = "note" THEN {"title", "content"} ELSE {"title", "description", "url"}

\* the string has a character that is no white space
HasChar(s) == \E i \in 1..Len(s) : s[i] \notin WS

\* a value that is absent, no string, or a blank string
Blank(v) == v.t # "string" \/ ~HasChar(v.s)

\* s reads http:// or https:// and then at least one more character
StartsHttp(s) ==
    LET rest == IF Len(s) >= 5 /\ SubSeq(s, 1, 4) = <<"h", "t", "t", "p">>
                THEN SubSeq(s, IF s[5] = "s" THEN 6 ELSE 5, Len(s))
                ELSE <<>>
    IN  Len(rest) >= 4 /\ SubSeq(rest, 1, 3) = <<":", "/", "/">> /\ rest[4] # "\n"

\* the body of a create request fails the validation of section 7
LocallyInvalid(kind, b) ==
    IF kind = "note" THEN Blank(b.title) \/ Blank(b.content)
    ELSE Blank(b.url) \/ ~StartsHttp(Trim(b.url.s))

\* the request names, by id, a document that another user owns
ByNonOwner(r) ==
    /\ r.op \in {"get", "update", "delete"}
    /\ \E d \in CollOf(r.kind) : d.id = r.id /\ d.user # r.user

\* the request names no document of the requester
NonMatch(r) == ~\E d \in CollOf(r.kind) : d.id = r.id /\ d.user = r.user

\* q occurs in s as a literal substring, letter case ignored
ContainsCI(q, s) ==
    \E k \in 0..(Len(s) - Len(q)) : \A i \in 1..Len(q) : LowerChar(q[i]) = LowerChar(s[k + i])

Present(v) == v.t = "string" /\ v.s # <<>>

\* the documents a list request is to return, by the conditions of section 4.2
Expected(r) ==
    LET wanted == IF Present(r.query.tags) THEN TagFilter(r.query.tags.s) ELSE <<>>
    IN  {d \in CollOf(r.kind) :
            /\ d.user = r.user
            /\ Present(r.query.q) => \E f \in FieldsOf(r.kind) : ContainsCI(r.query.q.s, d[f])
            /\ wanted # <<>> => \E i \in 1..Len(d.tags), j \in 1..Len(wanted) : d.tags[i] = wanted[j]
            /\ r.query.favorite = Str(sTrue) => d.isFavorite}

Range(seq) == {seq[i] : i \in 1..Len(seq)}

\* docs lists the set S, each document once, newest first
ListsNewestFirst(docs, S) ==
    /\ Range(docs) = S
    /\ Len(docs) = Cardinality(S)
    /\ \A i, j \in 1..Len(docs) : i < j => docs[i].createdAt >= docs[j].createdAt

\* a tag list without duplicates and without empty or blank entries
CleanTags(t) ==
    /\ \A i \in 1..Len(t) : HasChar(t[i])
    /\ \A i, j \in 1..Len(t) : i # j => t[i] # t[j]

\* the answer of the router to a request, in the current state
Answer(kind, op, u, id, b) ==
    CASE kind = "note" /\ op = "get" -> NoteGet(u, id).res
      [] kind = "note" /\ op = "update" -> NotePut(u, id, b, clock).res
      [] kind = "note" /\ op = "delete" -> NoteDelete(u, id).res
      [] kind = "bookmark" /\ op = "get" -> BookmarkGet(u, id).res
      [] kind = "bookmark" /\ op = "update" -> BookmarkPut(u, id, b, clock).res
      [] kind = "bookmark" /\ op = "delete" -> BookmarkDelete(u, id).res

BodiesOf(kind, op) ==
    IF op # "update" THEN {NoBody}
    ELSE IF kind = "note" THEN NotePutBodies ELSE BookmarkPutBodies

\* the well-formed ids of no document
MissingIds(kind) == {i \in IdParams \ {MalformedId} : \A d \in CollOf(kind) : d.id # i}

NotFound(kind) == Reply(404, <<MsgOf(kind).notFound>>, <<>>, "called")

\* the title fetchMetadata is to give for a page: the first of the four
\* candidates that is not empty once collapsed and trimmed
ExpectedTitle(page) ==
    LET cands == <<page.og, page.tw, page.title, page.h1>>
        clean(v) == IF v.t = "string" THEN Collapse(Trim(v.s)) ELSE <<>>
        good == {i \in 1..4 : clean(cands[i]) # <<>>}
    IN  IF ~page.ok \/ good = {} THEN Null
        ELSE Str(clean(cands[CHOOSE i \in good : \A j \in good : i <= j]))

\* the collection after the step
CollAfter(kind) == IF kind = "note" THEN notes' ELSE bookmarks'

\* the fields of a document that a request body can name
BodyFields == {"title", "content", "url", "description", "tags", "isFavorite"}

\* the fields of a document that the body b leaves out
AbsentFields(d, b) == {f \in DOMAIN d : f \notin BodyFields \/ b[f] = Undef}

\* the body of an update has a required field that is present and fails the
\* local validation: a blank title or content for a note, a blank or
\* non-http(s) url for a bookmark
UpdateLocallyInvalid(kind, b) ==
    IF kind = "note"
    THEN (b.title # Undef /\ Blank(b.title)) \/ (b.content # Undef /\ Blank(b.content))
    ELSE b.url # Undef /\ (Blank(b.url) \/ ~StartsHttp(Trim(b.url.s)))

\* the step is an update by the owner of the document d
UpdateByOwnerOf(d) ==
    /\ req'.op = "update"
    /\ d \in CollOf(req'.kind)
    /\ d.id = req'.id
    /\ d.user = req'.user

\* the step leaves alone all that an update of d may not touch: the fields
\* of d in keep, every other document, and d itself when the body fails the
\* local validation, which is answered 400
UpdateFrame(d, keep) ==
    /\ \E n \in CollAfter(req'.kind) : n.id = d.id /\ \A f \in keep : n[f] = d[f]
    /\ \A o \in CollOf(req'.kind) : o.id # d.id => o \in CollAfter(req'.kind)
    /\ Cardinality(CollAfter(req'.kind)) = Cardinality(CollOf(req'.kind))
    /\ UpdateLocallyInvalid(req'.kind, req'.body) =>
           /\ res'.status = 400
           /\ res'.storage = "none"
           /\ d \in CollAfter(req'.kind)

----------------------------------------------------------------------------
(* Properties *)

\* C1, as claimed: a get, update or delete by a user who does not own the
\* document of that id is answered 404 and leaves the collections as they were.
C1_NonOwnerAlways404 ==
    [][ByNonOwner(req') =>
          res'.status = 404 /\ notes' = notes /\ bookmarks' = bookmarks]_vars

\* C1, amended: such a request is answered 404, or, when it is an update whose
\* body the handler rejects before the store is asked for the document, 400
\* or 500; never 200 or 403; and the collections stay as they were.
C1_NonOwnerNotServed ==
    [][ByNonOwner(req') =>
          /\ res'.status \in {404, 400, 500}
          /\ res'.status # 404 => req'.op = "update" /\ res'.storage # "called"
          /\ res'.docs = <<>>
          /\ notes' = notes
          /\ bookmarks' = bookmarks]_vars

C1_Witness ==
    /\ req.op = "update"
    /\ req.body.tags # Undef
    /\ \E d \in CollOf(req.kind) : d.id = req.id /\ d.user # req.user
    /\ res.status = 404

\* C2: a create request whose body fails local validation is answered 400
\* without any call of the model layer, and stores nothing.
C2_InvalidCreateRejected ==
    [][(req'.op = "create" /\ LocallyInvalid(req'.kind, req'.body)) =>
          /\ res'.status = 400
          /\ res'.storage = "none"
          /\ notes' = notes
          /\ bookmarks' = bookmarks]_vars

C2_Witness ==
    /\ req.op = "create"
    /\ req.kind = "note"
    /\ ~Blank(req.body.title)
    /\ req.body.content = Undef
    /\ res.status = 400

\* C3, as claimed: a list request that is answered 200 is answered with exactly
\* the requester's documents that satisfy every active condition, newest first.
C3_ListExact ==
    (req.op = "list" /\ res.status = 200) => ListsNewestFirst(res.docs, Expected(req))

\* C4, as claimed: with only q given, a document of the requester is listed if
\* and only if q occurs, letter case ignored, as a literal substring of a
\* searched field.
C4_TextLiteral ==
    (/\ req.op = "list"
     /\ Present(req.query.q)
     /\ req.query.tags = Undef
     /\ req.query.favorite = Undef
     /\ res.status = 200) =>
        Range(res.docs) =
              {d \in CollOf(req.kind) :
                  /\ d.user = req.user
                  /\ \E f \in FieldsOf(req.kind) : ContainsCI(req.query.q.s, d[f])}

\* C5, as claimed: a bookmark created with a valid url and an absent or blank
\* title, when fetchMetadata gives null (the other fields being acceptable),
\* is answered 201 and stored with the raw url of the request as its title.
C5_TitleIsRawUrl ==
    (/\ req.op = "create"
     /\ req.kind = "bookmark"
     /\ ~LocallyInvalid("bookmark", req.body)
     /\ (req.body.title \in {Undef, Null}
            \/ (req.body.title.t = "string" /\ ~HasChar(req.body.title.s)))
     /\ req.fetched = Null
     /\ req.body.description = Undef
     /\ req.body.isFavorite.t \in {"undefined", "boolean"}) =>
        /\ res.status = 201
        /\ Len(res.docs) = 1
        /\ res.docs[1].title = req.body.url.s
        /\ res.docs[1] \in bookmarks

\* C6: every tag list that create and update produce and store, whatever the
\* tags of the request, has no duplicate and no empty or blank entry.
C6_TagsClean ==
    \A d \in notes \cup bookmarks \cup Range(res.docs) : CleanTags(d.tags)

C6_Witness ==
    /\ req.op = "update"
    /\ req.body.tags.t = "array"
    /\ res.status = 200
    /\ Len(res.docs[1].tags) >= 2
    /\ Len(req.body.tags.a) > Len(res.docs[1].tags)

\* C7: processing the array that tag processing produced gives that array
\* again, the same elements in the same order.
C7_Idempotent == tagAgain.done => tagAgain.v = tagOut.v

C7_Witness ==
    /\ tagAgain.done
    /\ tagIn.t = "array"
    /\ Len(tagOut.v) >= 1
    /\ Len(tagIn.a) > Len(tagOut.v)

\* C8, as claimed: a list request whose call of the store does not fail is
\* answered 200, whatever its q, tags and favorite are.
C8_ListNeverFails == (req.op = "list" /\ res.storage # "threw") => res.status = 200

\* C9, as claimed: fetchMetadata raises nothing and gives the first candidate,
\* in the order og:title, twitter:title, title, h1, that is not empty after
\* collapsing and trimming; null if there is none or the fetch failed.
C9_FirstNonEmpty == fr.called => ~fr.threw /\ fr.value = ExpectedTitle(fx)

\* C10, as claimed: a get, update or delete that names no document of the
\* requester (another user's, a missing or a malformed id), and that a missing
\* id would see answered "not found", is answered that same 404.
C10_AllNotFound ==
    (/\ req.op \in {"get", "update", "delete"}
     /\ NonMatch(req)
     /\ \E j \in MissingIds(req.kind) :
            Answer(req.kind, req.op, req.user, j, req.body) = NotFound(req.kind)) =>
        /\ res.status = 404
        /\ res.error = <<MsgOf(req.kind).notFound>>

\* C10, amended: between requests, whatever the request, the id of another
\* user's document and a missing well-formed id get the same answer, and so
\* cannot be told apart; get and delete answer them "not found"; the
\* malformed id is told apart: where a missing id gets the 404, it gets 400
\* with the router's "Invalid ... ID".
C10_ForeignAsMissing ==
    req = Idle =>
        \A kind \in {"note", "bookmark"}, op \in {"get", "update", "delete"}, u \in Users :
            \A b \in BodiesOf(kind, op), j \in MissingIds(kind) :
                /\ \A d \in CollOf(kind) :
                       d.user # u => Answer(kind, op, u, d.id, b) = Answer(kind, op, u, j, b)
                /\ op # "update" => Answer(kind, op, u, j, b) = NotFound(kind)
                /\ Answer(kind, op, u, j, b) = NotFound(kind) =>
                       Answer(kind, op, u, MalformedId, b)
                           = Reply(400, <<MsgOf(kind).invalid>>, <<>>, "threw")

C10_Witness ==
    /\ req.op = "delete"
    /\ \E d \in CollOf(req.kind) : d.id = req.id /\ d.user # req.user
    /\ MissingIds(req.kind) # {}
    /\ res = NotFound(req.kind)

\* C11, as claimed: an update by the owner leaves every field of the document
\* that the body does not give, its owner and every other document as they
\* were, and an update answered 400 for a blank title or content, or a blank
\* or non-http(s) url, leaves the whole document as it was.
C11_OnlyPresentFields ==
    [][\A d \in notes \cup bookmarks :
          UpdateByOwnerOf(d) => UpdateFrame(d, AbsentFields(d, req'.body))]_vars

\* C11, amended: the same, but for updatedAt, which only an update that is
\* applied (answered 200) changes, and only to the time of that update,
\* later than it was.
C11_OnlyPresentFieldsAndUpdatedAt ==
    [][\A d \in notes \cup bookmarks :
          UpdateByOwnerOf(d) =>
              /\ UpdateFrame(d, AbsentFields(d, req'.body) \ {"updatedAt"})
              /\ \E n \in CollAfter(req'.kind) :
                     /\ n.id = d.id
                     /\ n.updatedAt # d.updatedAt =>
                            /\ res'.status = 200
                            /\ n.updatedAt = clock'
                            /\ n.updatedAt > d.updatedAt]_vars

C11_Witness ==
    /\ req.op = "update"
    /\ res.status = 200
    /\ req.body.title # Undef
    /\ req.body.tags = Undef
    /\ Len(res.docs) = 1
    /\ res.docs[1] \in CollOf(req.kind)
    /\ res.docs[1].tags # <<>>
    /\ res.docs[1].updatedAt > res.docs[1].createdAt
    /\ \E o \in CollOf(req.kind) : o.id # req.id

====
